---- MODULE Spec2Model ----
(***************************************************************************)
(* Model of the timeuuid package (src/timeuuid.go, second revision of the  *)
(* file, lines 176-970): the UUID value type with its two unsigned 64-bit  *)
(* words, the binary / sortable-binary / text codecs and the generators.   *)
(*                                                                         *)
(* A 64-bit word is a tuple of 16 hexadecimal digits, most significant     *)
(* first, so that every shift of the source (12, 16, 32, 48, 56 bits) is a *)
(* move by whole digits and every mask is applied digit by digit.  A byte  *)
(* is a number in 0..255 and a buffer a sequence of bytes; text is a       *)
(* buffer of ASCII codes, as in the []byte the source works on.            *)
(***************************************************************************)
EXTENDS Integers, Sequences, FiniteSets, TLC

VARIABLES uuid, data, dataOf, call, ret, err

vars == <<uuid, data, dataOf, call, ret, err>>

----------------------------------------------------------------------------
(* 64-bit words as 16 hexadecimal digits.                                  *)

Digits == 1..16

Bit(n, i) == (n \div (2 ^ i)) % 2

\* the tables of a & b, a ^ b and a | b on hexadecimal digits
AndTable ==
    [a \in 0..15, b \in 0..15 |->
        Bit(a, 0) * Bit(b, 0) + 2 * (Bit(a, 1) * Bit(b, 1))
        + 4 * (Bit(a, 2) * Bit(b, 2)) + 8 * (Bit(a, 3) * Bit(b, 3))]

XorTable ==
    [a \in 0..15, b \in 0..15 |->
        ((Bit(a, 0) + Bit(b, 0)) % 2) + 2 * ((Bit(a, 1) + Bit(b, 1)) % 2)
        + 4 * ((Bit(a, 2) + Bit(b, 2)) % 2) + 8 * ((Bit(a, 3) + Bit(b, 3)) % 2)]

NibAnd(a, b) == AndTable[a, b]

NibXor(a, b) == XorTable[a, b]

NibOr(a, b) == a + b - AndTable[a, b]

\* the four hexadecimal digits of a 16-bit number
Hex4(n) == <<(n \div 4096) % 16, (n \div 256) % 16, (n \div 16) % 16, n % 16>>

\* the 64-bit word a:b:c:d written as four 16-bit groups
W(a, b, c, d) == Hex4(a) \o Hex4(b) \o Hex4(c) \o Hex4(d)

Zero64 == W(0, 0, 0, 0)

\* the word whose digit i is F(i), built digit by digit
Word(F(_)) ==
    <<F(1), F(2), F(3), F(4), F(5), F(6), F(7), F(8),
      F(9), F(10), F(11), F(12), F(13), F(14), F(15), F(16)>>

And(x, y) == Word(LAMBDA i : NibAnd(x[i], y[i]))

Or(x, y) == Word(LAMBDA i : NibOr(x[i], y[i]))

Xor(x, y) == Word(LAMBDA i : NibXor(x[i], y[i]))

\* x << k and x >> k on uint64, k a multiple of 4 (all shifts of the source are)
Shl(x, k) == Word(LAMBDA i : IF i + (k \div 4) <= 16 THEN x[i + (k \div 4)] ELSE 0)

Shr(x, k) == Word(LAMBDA i : IF i - (k \div 4) >= 1 THEN x[i - (k \div 4)] ELSE 0)

\* x + y modulo 2^64: Carry(x, y, i) is the carry out of digit i
RECURSIVE Carry(_, _, _)
Carry(x, y, i) == IF i > 16 THEN 0 ELSE (x[i] + y[i] + Carry(x, y, i + 1)) \div 16

Add(x, y) == Word(LAMBDA i : (x[i] + y[i] + Carry(x, y, i + 1)) % 16)

Neg(x) == Add(Word(LAMBDA i : 15 - x[i]), W(0, 0, 0, 1))

Sub(x, y) == Add(x, Neg(y))

\* x * k modulo 2^64 for a small multiplier k (k < 2^26)
RECURSIVE MulCarry(_, _, _)
MulCarry(x, k, i) == IF i > 16 THEN 0 ELSE (x[i] * k + MulCarry(x, k, i + 1)) \div 16

Mul(x, k) == Word(LAMBDA i : (x[i] * k + MulCarry(x, k, i + 1)) % 16)

\* unsigned x / k for a small divisor k: long division, digit by digit
RECURSIVE DivRem(_, _, _)
DivRem(x, k, i) == IF i < 1 THEN 0 ELSE (DivRem(x, k, i - 1) * 16 + x[i]) % k

UDiv(x, k) == Word(LAMBDA i : (DivRem(x, k, i - 1) * 16 + x[i]) \div k)

IsNegative(x) == x[1] >= 8

\* Go's int64 division: the quotient is truncated toward zero
SDiv(x, k) == IF IsNegative(x) THEN Neg(UDiv(Neg(x), k)) ELSE UDiv(x, k)

\* Go's int64 remainder by a small divisor, as a number: its sign is that of x
SRem(x, k) == IF IsNegative(x) THEN 0 - DivRem(Neg(x), k, 16) ELSE DivRem(x, k, 16)

\* int64(n) for a number n with |n| < 2^31
FromInt(n) ==
    LET m == IF n < 0 THEN 0 - n ELSE n
        w == Word(LAMBDA i : IF i <= 8 THEN 0 ELSE (m \div (16 ^ (16 - i))) % 16)
    IN  IF n < 0 THEN Neg(w) ELSE w

\* Go's division of numbers: the quotient is truncated toward zero
TruncDiv(a, b) == IF a < 0 THEN 0 - ((0 - a) \div b) ELSE a \div b

\* lexicographic order on sequences of numbers; on words it is the unsigned order
RECURSIVE SeqLess(_, _, _)
SeqLess(s, t, i) ==
    IF i > Len(s) \/ i > Len(t) THEN Len(s) < Len(t)
    ELSE IF s[i] # t[i] THEN s[i] < t[i]
    ELSE SeqLess(s, t, i + 1)

ULess(x, y) == SeqLess(x, y, 1)

\* the order of int64 (two's complement)
SLess(x, y) == IF IsNegative(x) # IsNegative(y) THEN IsNegative(x) ELSE ULess(x, y)

----------------------------------------------------------------------------
(* Constants of the package.                                               *)

IETFVariant == Shl(W(0, 0, 0, \h0080), 56)

One100NanosInSecond == 10000000

One100NanosInMillis == 10000

Num100NanosSinceUUIDEpoch == W(\h01b2, \h1dd2, \h1381, \h4000)

VersionMask == W(0, 0, 0, \hF000)

TimebasedVersion == W(0, 0, 0, \h1000)

MaxNode == W(\h0000, \hFFFF, \hFFFF, \hFFFF)

NodeClearMask == W(\hFFFF, 0, 0, 0)

MaxClockSequence == W(0, 0, 0, \h3FFF)

ClockSequenceClearMask == W(\hC000, \hFFFF, \hFFFF, \hFFFF)

FlipSignedBits == W(\h0080, \h8080, \h8080, \h8080)

CounterMask == W(\h3FFF, \hFFFF, \hFFFF, \hFFFF)

MinCounterLeastBits == W(\h0080, \h8080, \h8080, \h8080)

MaxCounterLeastBits == W(\h7f7f, \h7f7f, \h7f7f, \h7f7f)

\* the Version constants, numbered by iota
BadVersion == 0

TimebasedUUID == 1

DCESecurityUUID == 2

MD5NamebasedUUID == 3

RandomlyGeneratedUUID == 4

SHA1NamebasedUUID == 5

UnknownVersion == 6

UUID(most, least) == [mostSigBits |-> most, leastSigBits |-> least]

ZeroUUID == UUID(Zero64, Zero64)

----------------------------------------------------------------------------
(* Bytes and buffers (encoding/binary, big endian).                        *)

ByteAnd(a, b) == 16 * NibAnd(a \div 16, b \div 16) + NibAnd(a % 16, b % 16)

ByteOr(a, b) == 16 * NibOr(a \div 16, b \div 16) + NibOr(a % 16, b % 16)

\* make([]byte, n)
MakeBytes(n) == [i \in 1..n |-> 0]

\* b[from:] with the 0-based index of the source
SliceFrom(b, from) == SubSeq(b, from + 1, Len(b))

\* b[from:to]
Slice(b, from, to) == SubSeq(b, from + 1, to)

\* the bytes of src written over dst from 0-based index at (src fits: every
\* use follows a check of the length of dst)
Overwrite(dst, at, src) ==
    SubSeq(dst, 1, at) \o src \o SubSeq(dst, at + Len(src) + 1, Len(dst))

\* the byte made of the digits 2j-1 and 2j of a word
ByteOf(x, j) == 16 * x[2 * j - 1] + x[2 * j]

\* the k-byte big-endian number at the start of b, as the low digits of a word
BigEndian(b, k) ==
    Word(LAMBDA i :
        IF i <= 16 - 2 * k THEN 0
        ELSE LET d == i - (16 - 2 * k)
             IN  IF d % 2 = 1 THEN b[(d + 1) \div 2] \div 16 ELSE b[d \div 2] % 16)

Uint64(b) == BigEndian(b, 8)

Uint32(b) == BigEndian(b, 4)

Uint16(b) == BigEndian(b, 2)

PutUint64(x) ==
    <<ByteOf(x, 1), ByteOf(x, 2), ByteOf(x, 3), ByteOf(x, 4),
      ByteOf(x, 5), ByteOf(x, 6), ByteOf(x, 7), ByteOf(x, 8)>>

\* PutUint32(uint32(x)), PutUint16(uint16(x)): the conversion keeps the low bits
PutUint32(x) == <<ByteOf(x, 5), ByteOf(x, 6), ByteOf(x, 7), ByteOf(x, 8)>>

PutUint16(x) == <<ByteOf(x, 7), ByteOf(x, 8)>>

\* bytes.Compare: -1, 0 or 1
BytesCompare(a, b) == IF a = b THEN 0 ELSE IF SeqLess(a, b, 1) THEN -1 ELSE 1

\* the result of an operation on the receiver: the receiver afterwards and the error
Res(u, e) == [uuid |-> u, err |-> e]

\* the result of an operation that fills a buffer
Out(b, e) == [dst |-> b, err |-> e]

----------------------------------------------------------------------------
(* Identifier core.                                                        *)

Equal(this, other) ==
    this.mostSigBits = other.mostSigBits /\ this.leastSigBits = other.leastSigBits

\* slip: the version is shifted to bits 8..11
NewUUID_Shift8(version) == UUID(Shl(W(0, 0, 0, version), 8), IETFVariant)

NewUUID(version) == UUID(Shl(W(0, 0, 0, version), 12), IETFVariant)

Version(this) ==
    LET version == Shr(And(this.mostSigBits, VersionMask), 12)[16]
    IN  IF version >= UnknownVersion THEN UnknownVersion ELSE version

Variant(this) ==
    LET variant == ByteOf(Shr(this.leastSigBits, 56), 8)
    IN  IF ByteAnd(variant, \h80) = 0 THEN "NCSReserved"
        ELSE IF ByteAnd(variant, \hC0) = \h80 THEN "IETF"
        ELSE IF ByteAnd(variant, \hE0) = \hC0 THEN "MicrosoftReserved"
        ELSE IF ByteAnd(variant, \hE0) = \hE0 THEN "FutureReserved"
        ELSE "UnknownVariant"

\* slip: the time_high field is left out of the timestamp
Time100NanosUnsigned_NoHigh(this) ==
    LET timeMid  == And(Shr(this.mostSigBits, 16), W(0, 0, 0, \hFFFF))
        timeLow  == And(Shr(this.mostSigBits, 32), W(0, 0, \hFFFF, \hFFFF))
    IN  Or(Shl(timeMid, 32), timeLow)

Time100NanosUnsigned(this) ==
    LET timeHigh == And(this.mostSigBits, W(0, 0, 0, \h0FFF))
        timeMid  == And(Shr(this.mostSigBits, 16), W(0, 0, 0, \hFFFF))
        timeLow  == And(Shr(this.mostSigBits, 32), W(0, 0, \hFFFF, \hFFFF))
    IN  Or(Or(Shl(timeHigh, 48), Shl(timeMid, 32)), timeLow)

Time100Nanos(this) == Time100NanosUnsigned(this)

\* slip: the version bits of the receiver are kept
SetTime100NanosUnsigned_KeepVersion(this, time100Nanos) ==
    LET timeLow  == Shl(And(time100Nanos, W(0, 0, \hFFFF, \hFFFF)), 32)
        timeMid  == Shr(And(time100Nanos, W(0, \hFFFF, 0, 0)), 16)
        timeHigh == Shr(And(time100Nanos, W(\h0FFF, 0, 0, 0)), 48)
        bits     == Or(Or(Or(And(this.mostSigBits, VersionMask), timeLow), timeMid), timeHigh)
    IN  UUID(bits, this.leastSigBits)

SetTime100NanosUnsigned(this, time100Nanos) ==
    LET timeLow  == Shl(And(time100Nanos, W(0, 0, \hFFFF, \hFFFF)), 32)
        timeMid  == Shr(And(time100Nanos, W(0, \hFFFF, 0, 0)), 16)
        timeHigh == Shr(And(time100Nanos, W(\h0FFF, 0, 0, 0)), 48)
        bits     == Or(Or(Or(TimebasedVersion, timeLow), timeMid), timeHigh)
    IN  UUID(bits, this.leastSigBits)

SetTime100Nanos(this, time100Nanos) == SetTime100NanosUnsigned(this, time100Nanos)

\* slip: the epoch offset is not subtracted
UnixTimeMillis_NoOffset(this) == SDiv(Time100Nanos(this), One100NanosInMillis)

UnixTimeMillis(this) ==
    SDiv(Sub(Time100Nanos(this), Num100NanosSinceUUIDEpoch), One100NanosInMillis)

SetUnixTimeMillis(this, unixTimeMillis) ==
    LET time100Nanos == Add(Mul(unixTimeMillis, One100NanosInMillis), Num100NanosSinceUUIDEpoch)
    IN  SetTime100Nanos(this, time100Nanos)

UnixTime100Nanos(this) == Sub(Time100Nanos(this), Num100NanosSinceUUIDEpoch)

SetUnixTime100Nanos(this, unixTime100Nanos) ==
    SetTime100Nanos(this, Add(unixTime100Nanos, Num100NanosSinceUUIDEpoch))

\* a time.Time: the seconds since the Unix epoch (int64) and the nanoseconds
\* within the second, a number in [0, 10^9)
TimeOf(sec, nsec) == [sec |-> sec, nsec |-> nsec]

\* time.Unix(sec, nsec): nsec outside [0, 10^9) is carried into sec
TimeUnix(sec, nsec) ==
    IF nsec < 0 \/ nsec >= 1000000000
    THEN LET n  == TruncDiv(nsec, 1000000000)
             s1 == Add(sec, FromInt(n))
             n1 == nsec - n * 1000000000
         IN  IF n1 < 0 THEN TimeOf(Sub(s1, W(0, 0, 0, 1)), n1 + 1000000000)
             ELSE TimeOf(s1, n1)
    ELSE TimeOf(sec, nsec)

Time(this) ==
    LET unixTime100Nanos == UnixTime100Nanos(this)
    IN  TimeUnix(SDiv(unixTime100Nanos, One100NanosInSecond),
                 SRem(unixTime100Nanos, One100NanosInSecond) * 100)

\* slip: the nanoseconds are taken for 100-ns units
SetTime_NanosAsTicks(this, t) ==
    LET sec  == t.sec
        nsec == t.nsec
        one100Nanos == nsec % One100NanosInSecond
    IN  SetUnixTime100Nanos(this, Add(Mul(sec, One100NanosInSecond), FromInt(one100Nanos)))

SetTime(this, t) ==
    LET sec  == t.sec
        nsec == t.nsec
        one100Nanos == TruncDiv(nsec, 100) % One100NanosInSecond
    IN  SetUnixTime100Nanos(this, Add(Mul(sec, One100NanosInSecond), FromInt(one100Nanos)))

\* int(variantAndSequence) & MaxClockSequence, as a word
ClockSequence(this) == And(Shr(this.leastSigBits, 48), MaxClockSequence)

\* slip: the clock sequence is stored without the 14-bit mask
SetClockSequence_NoMask(this, clockSequence) ==
    UUID(this.mostSigBits,
         Or(And(this.leastSigBits, ClockSequenceClearMask), Shl(clockSequence, 48)))

\* the int argument is a 64-bit word
SetClockSequence(this, clockSequence) ==
    LET sanitizedSequence == And(clockSequence, MaxClockSequence)
    IN  UUID(this.mostSigBits,
             Or(And(this.leastSigBits, ClockSequenceClearMask), Shl(sanitizedSequence, 48)))

Node(this) == And(this.leastSigBits, MaxNode)

SetNode(this, node) ==
    LET sanitizedNode == And(node, MaxNode)
    IN  UUID(this.mostSigBits, Or(And(this.leastSigBits, NodeClearMask), sanitizedNode))

CounterUnsigned(this) == And(Xor(this.leastSigBits, FlipSignedBits), CounterMask)

Counter(this) == CounterUnsigned(this)

\* slip: the counter is stored and returned without the 62-bit mask
SetCounterUnsigned_NoMask(this, counter) ==
    [uuid |-> UUID(this.mostSigBits, Xor(Or(counter, IETFVariant), FlipSignedBits)),
     ret  |-> counter]

\* the receiver afterwards and the sanitized counter the call returns
SetCounterUnsigned(this, counter) ==
    LET sanitizedCounter == And(counter, CounterMask)
    IN  [uuid |-> UUID(this.mostSigBits, Xor(Or(sanitizedCounter, IETFVariant), FlipSignedBits)),
         ret  |-> sanitizedCounter]

SetCounter(this, counter) == SetCounterUnsigned(this, counter)

\* slip: the flip pattern of the minimum is left out
SetMinCounter_NoFlip(this) == UUID(this.mostSigBits, IETFVariant)

SetMinCounter(this) == UUID(this.mostSigBits, Or(MinCounterLeastBits, IETFVariant))

\* slip: the variant bits are left out of the maximum
SetMaxCounter_NoVariant(this) == UUID(this.mostSigBits, MaxCounterLeastBits)

SetMaxCounter(this) == UUID(this.mostSigBits, Or(MaxCounterLeastBits, IETFVariant))

SetMostSignificantBits(this, mostSigBits) == UUID(mostSigBits, this.leastSigBits)

SetLeastSignificantBits(this, leastSigBits) == UUID(this.mostSigBits, leastSigBits)

----------------------------------------------------------------------------
(* Binary codec.                                                           *)

\* slip: every length other than 16 is refused
UnmarshalBinary_ExactLen(this, b) ==
    IF Len(b) # 16 THEN Res(this, "ErrorWrongLen")
    ELSE Res(UUID(Uint64(b), Uint64(SliceFrom(b, 8))), "nil")

UnmarshalBinary(this, b) ==
    IF Len(b) < 16 THEN Res(this, "ErrorWrongLen")
    ELSE Res(UUID(Uint64(b), Uint64(SliceFrom(b, 8))), "nil")

\* slip: the three timestamp groups are read back in the natural order
UnmarshalSortableBinary_NaturalOrder(this, b) ==
    IF Len(b) < 16 THEN Res(this, "ErrorWrongLen")
    ELSE Res(UUID(Uint64(b), Xor(Uint64(SliceFrom(b, 8)), FlipSignedBits)), "nil")

UnmarshalSortableBinary(this, b) ==
    IF Len(b) < 16 THEN Res(this, "ErrorWrongLen")
    ELSE LET timeHighAndVersion == Uint16(b)
             timeMid == Uint16(SliceFrom(b, 2))
             timeLow == Uint32(SliceFrom(b, 4))
         IN  Res(UUID(Or(Or(Shl(timeLow, 32), Shl(timeMid, 16)), timeHighAndVersion),
                      Xor(Uint64(SliceFrom(b, 8)), FlipSignedBits)),
                 "nil")

\* slip: the two words are written in the wrong order
MarshalBinaryTo_LowFirst(this, dst) ==
    IF Len(dst) < 16 THEN Out(dst, "ErrorWrongLen")
    ELSE Out(Overwrite(Overwrite(dst, 0, PutUint64(this.leastSigBits)),
                       8, PutUint64(this.mostSigBits)),
             "nil")

MarshalBinaryTo(this, dst) ==
    IF Len(dst) < 16 THEN Out(dst, "ErrorWrongLen")
    ELSE Out(Overwrite(Overwrite(dst, 0, PutUint64(this.mostSigBits)),
                       8, PutUint64(this.leastSigBits)),
             "nil")

MarshalBinary(this) == MarshalBinaryTo(this, MakeBytes(16))

\* slip: the low word is stored without undoing the flip of the counter bytes
MarshalSortableBinaryTo_NoFlip(this, dst) ==
    IF Len(dst) < 16 THEN Out(dst, "ErrorWrongLen")
    ELSE LET d1 == Overwrite(dst, 0, PutUint16(this.mostSigBits))
             d2 == Overwrite(d1, 2, PutUint16(Shr(this.mostSigBits, 16)))
             d3 == Overwrite(d2, 4, PutUint32(Shr(this.mostSigBits, 32)))
         IN  Out(Overwrite(d3, 8, PutUint64(this.leastSigBits)), "nil")

MarshalSortableBinaryTo(this, dst) ==
    IF Len(dst) < 16 THEN Out(dst, "ErrorWrongLen")
    ELSE LET timeHighAndVersion == this.mostSigBits
             timeMid == Shr(this.mostSigBits, 16)
             timeLow == Shr(this.mostSigBits, 32)
             d1 == Overwrite(dst, 0, PutUint16(timeHighAndVersion))
             d2 == Overwrite(d1, 2, PutUint16(timeMid))
             d3 == Overwrite(d2, 4, PutUint32(timeLow))
         IN  Out(Overwrite(d3, 8, PutUint64(Xor(this.leastSigBits, FlipSignedBits))), "nil")

MarshalSortableBinary(this) == MarshalSortableBinaryTo(this, MakeBytes(16)).dst

----------------------------------------------------------------------------
(* Text codec.  Characters are ASCII codes.                                *)

\* '-'
Hyphen == 45

\* '"'
Quote == 34

\* "urn:uuid:"
UrnPrefix == <<117, 114, 110, 58, 117, 117, 105, 100, 58>>

\* "null"
NullLiteral == <<110, 117, 108, 108>>

\* hextable[n] of encoding/hex: "0123456789abcdef"
HexDigit(n) == IF n < 10 THEN 48 + n ELSE 87 + n

\* hex.Encode: two characters for each byte of src
HexEncode(src) ==
    [i \in 1..(2 * Len(src)) |->
        IF i % 2 = 1 THEN HexDigit(src[(i + 1) \div 2] \div 16) ELSE HexDigit(src[i \div 2] % 16)]

\* the value of a hexadecimal character, 16 for any other character
FromHexChar(c) ==
    IF c >= 48 /\ c <= 57 THEN c - 48
    ELSE IF c >= 97 /\ c <= 102 THEN c - 87
    ELSE IF c >= 65 /\ c <= 70 THEN c - 55
    ELSE 16

\* the number of pairs of hexadecimal characters hex.Decode reads from pair i
\* on before it meets an invalid character or the end of src
RECURSIVE ValidPairs(_, _)
ValidPairs(src, i) ==
    IF 2 * i > Len(src) THEN 0
    ELSE IF FromHexChar(src[2 * i - 1]) > 15 \/ FromHexChar(src[2 * i]) > 15 THEN 0
    ELSE 1 + ValidPairs(src, i + 1)

\* hex.Decode(dst, src): the bytes decoded before the first invalid character
\* are written to dst, the rest of dst is left as it was
HexDecode(dst, src) ==
    LET n == ValidPairs(src, 1)
    IN  Out([i \in 1..Len(dst) |->
                IF i <= n THEN 16 * FromHexChar(src[2 * i - 1]) + FromHexChar(src[2 * i])
                ELSE dst[i]],
            IF 2 * n < Len(src) THEN "InvalidByteError" ELSE "nil")

\* bytes.ToLower on ASCII
ToLower(b) == [i \in 1..Len(b) |-> IF b[i] >= 65 /\ b[i] <= 90 THEN b[i] + 32 ELSE b[i]]

\* slip: the case of the text wrapped in braces or quotes is left out
RECURSIVE ParseBytes_NoWrapped(_)
ParseBytes_NoWrapped(src) ==
    IF Len(src) = 36 THEN
        IF src[9] # Hyphen \/ src[14] # Hyphen \/ src[19] # Hyphen \/ src[24] # Hyphen
        THEN Res(ZeroUUID, "invalid UUID format")
        ELSE ParseBytes_NoWrapped(Slice(src, 0, 8) \o Slice(src, 9, 13) \o Slice(src, 14, 18)
                                  \o Slice(src, 19, 23) \o Slice(src, 24, 36))
    ELSE IF Len(src) = 36 + 9 THEN
        IF ToLower(Slice(src, 0, 9)) # UrnPrefix
        THEN Res(ZeroUUID, "invalid urn prefix")
        ELSE ParseBytes_NoWrapped(SliceFrom(src, 9))
    ELSE IF Len(src) = 32 THEN
        UnmarshalBinary(ZeroUUID, HexDecode(MakeBytes(16), src).dst)
    ELSE Res(ZeroUUID, "invalid UUID length")

\* ParseBytes: the loop over the shapes, one unfolding for each iteration; the
\* error of hex.Decode is dropped, as in the source
RECURSIVE ParseBytes(_)
ParseBytes(src) ==
    IF Len(src) = 36 THEN
        IF src[9] # Hyphen \/ src[14] # Hyphen \/ src[19] # Hyphen \/ src[24] # Hyphen
        THEN Res(ZeroUUID, "invalid UUID format")
        ELSE ParseBytes(Slice(src, 0, 8) \o Slice(src, 9, 13) \o Slice(src, 14, 18)
                        \o Slice(src, 19, 23) \o Slice(src, 24, 36))
    ELSE IF Len(src) = 36 + 9 THEN
        IF ToLower(Slice(src, 0, 9)) # UrnPrefix
        THEN Res(ZeroUUID, "invalid urn prefix")
        ELSE ParseBytes(SliceFrom(src, 9))
    ELSE IF Len(src) = 36 + 2 THEN
        ParseBytes(Slice(src, 1, 37))
    ELSE IF Len(src) = 32 THEN
        UnmarshalBinary(ZeroUUID, HexDecode(MakeBytes(16), src).dst)
    ELSE Res(ZeroUUID, "invalid UUID length")

\* slip: the wrapped text is kept whole, so that the next iteration meets
\* the same 38 characters
ParseBytesStep_KeepWrapped(src) ==
    IF Len(src) = 36 THEN
        IF src[9] # Hyphen \/ src[14] # Hyphen \/ src[19] # Hyphen \/ src[24] # Hyphen
        THEN [returns |-> TRUE, src |-> src, uuid |-> ZeroUUID, err |-> "invalid UUID format"]
        ELSE [returns |-> FALSE,
              src |-> Slice(src, 0, 8) \o Slice(src, 9, 13) \o Slice(src, 14, 18)
                      \o Slice(src, 19, 23) \o Slice(src, 24, 36),
              uuid |-> ZeroUUID, err |-> "nil"]
    ELSE IF Len(src) = 36 + 9 THEN
        IF ToLower(Slice(src, 0, 9)) # UrnPrefix
        THEN [returns |-> TRUE, src |-> src, uuid |-> ZeroUUID, err |-> "invalid urn prefix"]
        ELSE [returns |-> FALSE, src |-> SliceFrom(src, 9), uuid |-> ZeroUUID, err |-> "nil"]
    ELSE IF Len(src) = 36 + 2 THEN
        [returns |-> FALSE, src |-> Slice(src, 0, 38), uuid |-> ZeroUUID, err |-> "nil"]
    ELSE IF Len(src) = 32 THEN
        LET res == UnmarshalBinary(ZeroUUID, HexDecode(MakeBytes(16), src).dst)
        IN  [returns |-> TRUE, src |-> src, uuid |-> res.uuid, err |-> res.err]
    ELSE [returns |-> TRUE, src |-> src, uuid |-> ZeroUUID, err |-> "invalid UUID length"]

\* one iteration of the loop of ParseBytes on the current src: it returns an
\* identifier and an error, or it goes round again with a new src
ParseBytesStep(src) ==
    IF Len(src) = 36 THEN
        IF src[9] # Hyphen \/ src[14] # Hyphen \/ src[19] # Hyphen \/ src[24] # Hyphen
        THEN [returns |-> TRUE, src |-> src, uuid |-> ZeroUUID, err |-> "invalid UUID format"]
        ELSE [returns |-> FALSE,
              src |-> Slice(src, 0, 8) \o Slice(src, 9, 13) \o Slice(src, 14, 18)
                      \o Slice(src, 19, 23) \o Slice(src, 24, 36),
              uuid |-> ZeroUUID, err |-> "nil"]
    ELSE IF Len(src) = 36 + 9 THEN
        IF ToLower(Slice(src, 0, 9)) # UrnPrefix
        THEN [returns |-> TRUE, src |-> src, uuid |-> ZeroUUID, err |-> "invalid urn prefix"]
        ELSE [returns |-> FALSE, src |-> SliceFrom(src, 9), uuid |-> ZeroUUID, err |-> "nil"]
    ELSE IF Len(src) = 36 + 2 THEN
        [returns |-> FALSE, src |-> Slice(src, 1, 37), uuid |-> ZeroUUID, err |-> "nil"]
    ELSE IF Len(src) = 32 THEN
        LET res == UnmarshalBinary(ZeroUUID, HexDecode(MakeBytes(16), src).dst)
        IN  [returns |-> TRUE, src |-> src, uuid |-> res.uuid, err |-> res.err]
    ELSE [returns |-> TRUE, src |-> src, uuid |-> ZeroUUID, err |-> "invalid UUID length"]

Parse(s) == ParseBytes(s)

\* *this, err = ParseBytes(data)
UnmarshalText(this, b) == ParseBytes(b)

\* slip: the second group is encoded from the bytes of the third
MarshalTextTo_RepeatedGroup(this, dst) ==
    IF Len(dst) < 36 THEN Out(dst, "ErrorWrongLen")
    ELSE LET m  == MarshalBinary(this)
             d1 == Overwrite(dst, 0, HexEncode(Slice(m.dst, 0, 4)))
             d2 == Overwrite(Overwrite(d1, 8, <<Hyphen>>), 9, HexEncode(Slice(m.dst, 6, 8)))
             d3 == Overwrite(Overwrite(d2, 13, <<Hyphen>>), 14, HexEncode(Slice(m.dst, 6, 8)))
             d4 == Overwrite(Overwrite(d3, 18, <<Hyphen>>), 19, HexEncode(Slice(m.dst, 8, 10)))
             d5 == Overwrite(Overwrite(d4, 23, <<Hyphen>>), 24, HexEncode(SliceFrom(m.dst, 10)))
         IN  IF m.err # "nil" THEN Out(dst, m.err) ELSE Out(d5, "nil")

MarshalTextTo(this, dst) ==
    IF Len(dst) < 36 THEN Out(dst, "ErrorWrongLen")
    ELSE LET m  == MarshalBinary(this)
             d1 == Overwrite(dst, 0, HexEncode(Slice(m.dst, 0, 4)))
             d2 == Overwrite(Overwrite(d1, 8, <<Hyphen>>), 9, HexEncode(Slice(m.dst, 4, 6)))
             d3 == Overwrite(Overwrite(d2, 13, <<Hyphen>>), 14, HexEncode(Slice(m.dst, 6, 8)))
             d4 == Overwrite(Overwrite(d3, 18, <<Hyphen>>), 19, HexEncode(Slice(m.dst, 8, 10)))
             d5 == Overwrite(Overwrite(d4, 23, <<Hyphen>>), 24, HexEncode(SliceFrom(m.dst, 10)))
         IN  IF m.err # "nil" THEN Out(dst, m.err) ELSE Out(d5, "nil")

MarshalText(this) == MarshalTextTo(this, MakeBytes(36))

\* slip: the literal null is parsed like any other text
UnmarshalJSON_NoNull(this, b) == ParseBytes(b)

UnmarshalJSON(this, b) == IF b = NullLiteral THEN Res(this, "nil") ELSE ParseBytes(b)

\* the text is written into jsonVal[1:37], between the two quotes
MarshalJSON(this) ==
    LET jsonVal == <<Quote>> \o MakeBytes(36) \o <<Quote>>
        text    == MarshalTextTo(this, Slice(jsonVal, 1, 37))
    IN  Out(Overwrite(jsonVal, 1, text.dst), text.err)

String(this) == MarshalText(this).dst

URN(this) == UrnPrefix \o String(this)

----------------------------------------------------------------------------
(* Generators.                                                             *)

\* the buffer after rand.Read: the first n bytes of the 16 are filled from the
\* random stream, the rest keep the zeros of make
RandRead(randomBytes, stream, n) == Overwrite(randomBytes, 0, SubSeq(stream, 1, n))

\* RandomUUID, given what rand.Read did: the number n of bytes it filled from
\* stream (its error, discarded by the source, is non-nil exactly when n < 16)
RandomUUID(stream, n) ==
    LET r0 == RandRead(MakeBytes(16), stream, n)
        r1 == [r0 EXCEPT ![7] = ByteOr(ByteAnd(r0[7], \h0f), \h40)]
        r2 == [r1 EXCEPT ![9] = ByteOr(ByteAnd(r1[9], \h3f), \h80)]
    IN  UnmarshalBinary(ZeroUUID, r2)

\* md5.Sum and sha1.Sum on the names the callers pass: the digests of
\* "alex", "content" and the empty name
Md5Sum(name) ==
    CASE name = "alex" ->
            <<\h53, \h4b, \h44, \ha1, \h9b, \hf1, \h8d, \h20, \hb7, \h1e,
              \hcc, \h4e, \hb7, \h7c, \h57, \h2f>>
      [] name = "content" ->
            <<\h9a, \h03, \h64, \hb9, \he9, \h9b, \hb4, \h80, \hdd, \h25,
              \he1, \hf0, \h28, \h4c, \h85, \h55>>
      [] name = "" ->
            <<\hd4, \h1d, \h8c, \hd9, \h8f, \h00, \hb2, \h04, \he9, \h80,
              \h09, \h98, \hec, \hf8, \h42, \h7e>>

Sha1Sum(name) ==
    CASE name = "alex" ->
            <<\h60, \hc6, \hd2, \h77, \ha8, \hbd, \h81, \hde, \h7f, \hdd,
              \he1, \h92, \h01, \hbf, \h9c, \h58, \ha3, \hdf, \h08, \hf4>>
      [] name = "content" ->
            <<\h04, \h0f, \h06, \hfd, \h77, \h40, \h92, \h47, \h8d, \h45,
              \h07, \h74, \hf5, \hba, \h30, \hc5, \hda, \h78, \hac, \hc8>>
      [] name = "" ->
            <<\hda, \h39, \ha3, \hee, \h5e, \h6b, \h4b, \h0d, \h32, \h55,
              \hbf, \hef, \h95, \h60, \h18, \h90, \haf, \hd8, \h07, \h09>>

\* slip: the variant bits of the digest are left as they are
SetName_NoVariant(this, name, version) ==
    IF version = MD5NamebasedUUID THEN
        LET digest == Md5Sum(name)
            d1 == [digest EXCEPT ![7] = ByteOr(ByteAnd(digest[7], \h0f), \h30)]
        IN  UnmarshalBinary(this, d1)
    ELSE IF version = SHA1NamebasedUUID THEN
        LET digest == Sha1Sum(name)
            d1 == [digest EXCEPT ![7] = ByteOr(ByteAnd(digest[7], \h0f), \h50)]
        IN  UnmarshalBinary(this, d1)
    ELSE Res(this, "unknown version")

\* SetName: the whole digest goes to UnmarshalBinary, 16 bytes of MD5 or 20
\* bytes of SHA-1
SetName(this, name, version) ==
    IF version = MD5NamebasedUUID THEN
        LET digest == Md5Sum(name)
            d1 == [digest EXCEPT ![7] = ByteOr(ByteAnd(digest[7], \h0f), \h30)]
            d2 == [d1 EXCEPT ![9] = ByteOr(ByteAnd(d1[9], \h3f), \h80)]
        IN  UnmarshalBinary(this, d2)
    ELSE IF version = SHA1NamebasedUUID THEN
        LET digest == Sha1Sum(name)
            d1 == [digest EXCEPT ![7] = ByteOr(ByteAnd(digest[7], \h0f), \h50)]
            d2 == [d1 EXCEPT ![9] = ByteOr(ByteAnd(d1[9], \h3f), \h80)]
        IN  UnmarshalBinary(this, d2)
    ELSE Res(this, "unknown version")

\* the named result uuid starts as the zero value
NameUUIDFromBytes(name, version) == SetName(ZeroUUID, name, version)

----------------------------------------------------------------------------
(* The state: one identifier the caller works on, one buffer, and the      *)
(* record of the last call.                                                *)
(*   uuid    the identifier (receiver of the methods)                      *)
(*   data    the caller's buffer: output of the last marshal, or input     *)
(*   dataOf  what data holds: its format and the identifier it encodes     *)
(*   call    the last operation and its argument                           *)
(*   ret     the value the last operation returned                         *)
(*   err     the error the last operation returned                         *)

NoArg == Zero64

Holds(fmt, u) == [fmt |-> fmt, uuid |-> u]

Call(op, arg) == [op |-> op, arg |-> arg]

Init ==
    /\ uuid = ZeroUUID
    /\ data = << >>
    /\ dataOf = Holds("empty", ZeroUUID)
    /\ call = Call("init", NoArg)
    /\ ret = NoArg
    /\ err = "nil"

----------------------------------------------------------------------------
(* Inputs.                                                                 *)

\* largest length of a buffer the caller supplies
MaxBufferLen == 17

\* number of distinct byte patterns the caller and the random source supply
MaxPattern == 2

AllOnes == W(\hFFFF, \hFFFF, \hFFFF, \hFFFF)

Versions == BadVersion..UnknownVersion

\* words for the raw setters: all sixteen digits, each at its own place
WordSamples == {Zero64, W(\h0123, \h4567, \h89ab, \hcdef), W(\hfedc, \hba98, \h7654, \h3210)}

\* timestamps: one in each field of the layout (time_low, time_mid,
\* time_high), and one beyond 60 bits
TimeSamples == {W(0, 0, 0, 1), W(0, 1, 0, 0), W(1, 0, 0, 0), W(\h1000, 0, 0, 2)}

\* counters: the ends of the range, both sides of a flipped bit (0x7f, 0x80),
\* and a value beyond 62 bits (-1 as int64)
CounterSamples == {Zero64, W(0, 0, 0, \h7f), W(0, 0, 0, \h80), CounterMask, AllOnes}

\* clock sequences: the ends of the range, one bit beyond it, and -1
ClockSamples == {Zero64, W(0, 0, 0, \h3FFF), W(0, 0, 1, \h3FFF), AllOnes}

\* nodes: the ends of the range and one bit beyond it
NodeSamples == {Zero64, W(0, \hFFFF, \hFFFF, \hFFFF), W(1, \hFFFF, \hFFFF, \hFFFF)}

\* Unix milliseconds: 0, 1, -1, a date of 2018, the first and the last
\* millisecond a 60-bit timestamp can hold, and their neighbours outside
MinMillis == W(\hffff, \hf4e2, \hf964, \hac00)

MaxMillis == W(\h0000, \h5dbe, \h8511, \h1d0c)

MillisSamples ==
    {Zero64, W(0, 0, 0, 1), AllOnes, W(\h0000, \h0166, \he88f, \h5700),
     MinMillis, Sub(MinMillis, W(0, 0, 0, 1)), MaxMillis, Add(MaxMillis, W(0, 0, 0, 1))}

\* Unix time in 100-ns units: the epoch, one tick before it, a date of 2018
Unix100NanosSamples == {Zero64, AllOnes, W(\h0035, \hc3d7, \h9e5c, \h7400)}

\* times: the seconds of the Unix epoch, the second before it, a date of
\* 2018, the first second a timestamp can hold (1582-10-15) and the one
\* before it; the nanoseconds at both ends of a second and of a 100-ns unit
MinSeconds == SDiv(Neg(Num100NanosSinceUUIDEpoch), One100NanosInSecond)

SecondSamples ==
    {Zero64, AllOnes, W(0, 0, \h5be1, \h6c60), MinSeconds, Sub(MinSeconds, W(0, 0, 0, 1))}

NanoSamples == {0, 99, 100, 999999999}

TimeInputs == {TimeOf(sec, nsec) : sec \in SecondSamples, nsec \in NanoSamples}

\* largest length of a text the caller supplies
MaxTextLen == 46

\* the identifier whose text shows all sixteen digits
SampleUUID == UUID(W(\h0123, \h4567, \h89ab, \hcdef), W(\hfedc, \hba98, \h7654, \h3210))

\* text with the character at 1-based position p replaced by c
Replace(text, p, c) == [text EXCEPT ![p] = c]

ToUpper(b) == [i \in 1..Len(b) |-> IF b[i] >= 97 /\ b[i] <= 122 THEN b[i] - 32 ELSE b[i]]

\* texts the caller supplies: the canonical text of SampleUUID in braces, with
\* the prefix in upper case or misspelt, without hyphens, in upper case, with
\* a hyphen or a digit replaced by a letter that is no digit, the JSON literal
\* null, and runs of '0' of every length that is no documented shape
TextInputs ==
    LET text    == String(SampleUUID)
        payload == HexEncode(MarshalBinary(SampleUUID).dst)
    IN  {<<123>> \o text \o <<125>>,
         ToUpper(UrnPrefix) \o text,
         Replace(UrnPrefix, 3, 120) \o text,
         payload,
         ToUpper(payload),
         Replace(payload, 1, 103),
         Replace(payload, 32, 103),
         Replace(text, 36, 103),
         <<123>> \o Replace(text, 9, 120) \o <<125>>,
         NullLiteral}
        \cup {Replace(text, q, 120) : q \in {9, 14, 19, 24}}
        \cup {[i \in 1..n |-> 48] : n \in {0} \cup {k \in 31..MaxTextLen : k \notin {32, 36, 38, 45}}}

\* what the random source delivers: how many of the 16 bytes it fills
RandFilled == {0, 8, 16}

\* the names digested
Names == {"alex", "content", ""}

\* a buffer of n distinct bytes, pattern p
Pattern(n, p) == [i \in 1..n |-> (p * 101 + i * 37) % 256]

BufferLens == {0} \cup {n \in 0..MaxBufferLen : n >= 15}

Buffers == {Pattern(n, p) : n \in BufferLens, p \in 1..MaxPattern}

----------------------------------------------------------------------------
(* Operations.                                                             *)

\* a setter: it changes the identifier and returns nothing
DoSet(op, arg, u) ==
    /\ uuid' = u
    /\ call' = Call(op, arg)
    /\ ret' = NoArg
    /\ err' = "nil"
    /\ UNCHANGED <<data, dataOf>>

\* a getter: it returns a value and changes nothing
DoGet(op, value) ==
    /\ call' = Call(op, NoArg)
    /\ ret' = value
    /\ err' = "nil"
    /\ UNCHANGED <<uuid, data, dataOf>>

\* a marshal: it fills the buffer from the identifier
DoMarshal(op, fmt, out) ==
    /\ data' = out.dst
    /\ dataOf' = Holds(fmt, uuid)
    /\ call' = Call(op, NoArg)
    /\ ret' = NoArg
    /\ err' = out.err
    /\ UNCHANGED uuid

\* an unmarshal of the buffer into the identifier
DoUnmarshal(op, res) ==
    /\ uuid' = res.uuid
    /\ call' = Call(op, NoArg)
    /\ ret' = NoArg
    /\ err' = res.err
    /\ UNCHANGED <<data, dataOf>>

\* uuid := NewUUID(version)
ActNewUUID == \E version \in Versions : DoSet("NewUUID", W(0, 0, 0, version), NewUUID(version))

\* uuid := NewUUID(TimebasedUUID)
ActNewTimebased == DoSet("NewUUID", W(0, 0, 0, TimebasedUUID), NewUUID(TimebasedUUID))

ActSetMostSignificantBits ==
    \E w \in WordSamples : DoSet("SetMostSignificantBits", w, SetMostSignificantBits(uuid, w))

ActSetLeastSignificantBits ==
    \E w \in WordSamples : DoSet("SetLeastSignificantBits", w, SetLeastSignificantBits(uuid, w))

ActSetTime100Nanos ==
    \E t \in TimeSamples : DoSet("SetTime100Nanos", t, SetTime100Nanos(uuid, t))

ActSetCounter ==
    \E c \in CounterSamples :
        /\ uuid' = SetCounter(uuid, c).uuid
        /\ call' = Call("SetCounter", c)
        /\ ret' = SetCounter(uuid, c).ret
        /\ err' = "nil"
        /\ UNCHANGED <<data, dataOf>>

ActSetMinCounter == DoSet("SetMinCounter", NoArg, SetMinCounter(uuid))

ActSetMaxCounter == DoSet("SetMaxCounter", NoArg, SetMaxCounter(uuid))

ActMarshalBinary == DoMarshal("MarshalBinary", "binary", MarshalBinary(uuid))

ActMarshalSortableBinary ==
    DoMarshal("MarshalSortableBinary", "sortable", Out(MarshalSortableBinary(uuid), "nil"))

\* the caller fills the buffer with bytes of its own
ActSupply ==
    \E b \in Buffers :
        /\ data' = b
        /\ dataOf' = Holds("caller", ZeroUUID)
        /\ call' = Call("Supply", NoArg)
        /\ ret' = NoArg
        /\ err' = "nil"
        /\ UNCHANGED uuid

ActUnmarshalBinary == DoUnmarshal("UnmarshalBinary", UnmarshalBinary(uuid, data))

ActUnmarshalSortableBinary ==
    DoUnmarshal("UnmarshalSortableBinary", UnmarshalSortableBinary(uuid, data))

\* bytes.Compare(data, uuid.MarshalSortableBinary()): the buffer marshalled
\* earlier against the sortable form of the identifier as it is now
ActCompareSortable ==
    /\ dataOf.fmt = "sortable"
    /\ call' = Call("CompareSortable", NoArg)
    /\ ret' = BytesCompare(data, MarshalSortableBinary(uuid))
    /\ err' = "nil"
    /\ UNCHANGED <<uuid, data, dataOf>>

ActSetUnixTimeMillis ==
    \E m \in MillisSamples : DoSet("SetUnixTimeMillis", m, SetUnixTimeMillis(uuid, m))

ActSetUnixTime100Nanos ==
    \E t \in Unix100NanosSamples : DoSet("SetUnixTime100Nanos", t, SetUnixTime100Nanos(uuid, t))

ActTime100Nanos == DoGet("Time100Nanos", Time100Nanos(uuid))

ActUnixTimeMillis == DoGet("UnixTimeMillis", UnixTimeMillis(uuid))

ActUnixTime100Nanos == DoGet("UnixTime100Nanos", UnixTime100Nanos(uuid))

ActSetTime == \E t \in TimeInputs : DoSet("SetTime", t, SetTime(uuid, t))

ActTime == DoGet("Time", Time(uuid))

ActVersion == DoGet("Version", W(0, 0, 0, Version(uuid)))

ActVariant == DoGet("Variant", Variant(uuid))

ActClockSequence == DoGet("ClockSequence", ClockSequence(uuid))

ActNode == DoGet("Node", Node(uuid))

ActCounter == DoGet("Counter", Counter(uuid))

ActSetClockSequence ==
    \E c \in ClockSamples : DoSet("SetClockSequence", c, SetClockSequence(uuid, c))

ActSetNode == \E n \in NodeSamples : DoSet("SetNode", n, SetNode(uuid, n))

ActMarshalText == DoMarshal("MarshalText", "text", MarshalText(uuid))

ActMarshalJSON == DoMarshal("MarshalJSON", "json", MarshalJSON(uuid))

\* data = []byte(uuid.String())
ActString == DoMarshal("String", "string", Out(String(uuid), "nil"))

\* data = []byte(uuid.URN())
ActURN == DoMarshal("URN", "urn", Out(URN(uuid), "nil"))

\* the shapes of one identifier's text a caller passes to Parse besides the
\* canonical one: in braces, in quotes, after the prefix in upper or in
\* mixed case, and the 32 digits alone, in lower or in upper case
Shapes == {"braces", "quotes", "URN", "Urn", "hex", "HEX"}

Shaped(shape, text) ==
    LET payload == Slice(text, 0, 8) \o Slice(text, 9, 13) \o Slice(text, 14, 18)
                   \o Slice(text, 19, 23) \o Slice(text, 24, 36)
    IN  CASE shape = "braces" -> <<123>> \o text \o <<125>>
          [] shape = "quotes" -> <<Quote>> \o text \o <<Quote>>
          [] shape = "URN"    -> ToUpper(UrnPrefix) \o text
          [] shape = "Urn"    -> Replace(UrnPrefix, 1, 85) \o text
          [] shape = "hex"    -> payload
          [] shape = "HEX"    -> ToUpper(payload)

\* data = the text of the identifier, String(), put into one of the shapes
ActShape ==
    \E shape \in Shapes : DoMarshal("String", shape, Out(Shaped(shape, String(uuid)), "nil"))

\* the caller fills the buffer with a text of its own
ActSupplyText ==
    \E text \in TextInputs :
        /\ data' = text
        /\ dataOf' = Holds("caller", ZeroUUID)
        /\ call' = Call("Supply", NoArg)
        /\ ret' = NoArg
        /\ err' = "nil"
        /\ UNCHANGED uuid

ActUnmarshalText == DoUnmarshal("UnmarshalText", UnmarshalText(uuid, data))

ActUnmarshalJSON == DoUnmarshal("UnmarshalJSON", UnmarshalJSON(uuid, data))

\* ret, err := Parse(string(data))
ActParse ==
    /\ call' = Call("Parse", NoArg)
    /\ ret' = Parse(data).uuid
    /\ err' = Parse(data).err
    /\ UNCHANGED <<uuid, data, dataOf>>

\* largest number of iterations of the loop of ParseBytes the model follows
MaxIterations == 5

\* the inputs of ParseBytes: the caller's texts, and the text of nine
\* identifiers in the canonical form, as URN and in every other shape
ParseInputs ==
    TextInputs
    \cup {String(UUID(m, l)) : m \in WordSamples, l \in WordSamples}
    \cup {URN(UUID(m, l)) : m \in WordSamples, l \in WordSamples}
    \cup {Shaped(shape, String(UUID(m, l))) :
              shape \in Shapes, m \in WordSamples, l \in WordSamples}

\* ParseBytes(src) is called: the loop is entered with src in data.  A call
\* begins when no call is under way, the program being sequential
ActParseBegin ==
    /\ ~ (call.op = "ParseBytes" /\ call.arg.pc = "loop")
    /\ \E src \in ParseInputs :
          /\ data' = src
          /\ dataOf' = Holds("caller", ZeroUUID)
          /\ call' = Call("ParseBytes", [pc |-> "loop", iter |-> 0])
          /\ ret' = ZeroUUID
          /\ err' = "nil"
          /\ UNCHANGED uuid

\* one iteration of the loop: the switch on len(src) returns, or replaces src
ActParseStep ==
    /\ call.op = "ParseBytes"
    /\ call.arg.pc = "loop"
    /\ call.arg.iter < MaxIterations
    /\ LET step == ParseBytesStep(data)
       IN  /\ data' = step.src
           /\ call' = Call("ParseBytes", [pc   |-> IF step.returns THEN "done" ELSE "loop",
                                          iter |-> call.arg.iter + 1])
           /\ ret' = IF step.returns THEN step.uuid ELSE ret
           /\ err' = step.err
           /\ UNCHANGED <<uuid, dataOf>>

\* uuid, err := RandomUUID(); rand.Read fills n of the 16 bytes and reports an
\* error exactly when n < 16
ActRandomUUID ==
    \E p \in 1..MaxPattern, n \in RandFilled :
        /\ uuid' = RandomUUID(Pattern(16, p), n).uuid
        /\ call' = Call("RandomUUID", [n |-> n, err |-> IF n < 16 THEN "short read" ELSE "nil",
                                       bytes |-> RandRead(MakeBytes(16), Pattern(16, p), n)])
        /\ ret' = NoArg
        /\ err' = RandomUUID(Pattern(16, p), n).err
        /\ UNCHANGED <<data, dataOf>>

\* uuid, err := NameUUIDFromBytes(name, version)
ActNameUUIDFromBytes ==
    \E name \in Names, version \in Versions :
        /\ uuid' = NameUUIDFromBytes(name, version).uuid
        /\ call' = Call("NameUUIDFromBytes", [name |-> name, version |-> version])
        /\ ret' = NoArg
        /\ err' = NameUUIDFromBytes(name, version).err
        /\ UNCHANGED <<data, dataOf>>

\* uuid, err := NameUUIDFromBytes([]byte("content"), SHA1NamebasedUUID)
ActNewNamed ==
    /\ uuid' = NameUUIDFromBytes("content", SHA1NamebasedUUID).uuid
    /\ call' = Call("NameUUIDFromBytes", [name |-> "content", version |-> SHA1NamebasedUUID])
    /\ ret' = NoArg
    /\ err' = NameUUIDFromBytes("content", SHA1NamebasedUUID).err
    /\ UNCHANGED <<data, dataOf>>

\* the sortable codec on arbitrary identifiers
NextSortable ==
    \/ ActSetMostSignificantBits
    \/ ActSetLeastSignificantBits
    \/ ActMarshalSortableBinary
    \/ ActUnmarshalSortableBinary

SpecSortable == Init /\ [][NextSortable]_vars

\* the natural-order codec, on marshalled and on caller-supplied buffers
NextBinary ==
    \/ ActSetMostSignificantBits
    \/ ActSetLeastSignificantBits
    \/ ActMarshalBinary
    \/ ActSupply
    \/ ActUnmarshalBinary

SpecBinary == Init /\ [][NextBinary]_vars

\* time-based identifiers with the counter view, compared in sortable form
NextOrder ==
    \/ ActNewTimebased
    \/ ActSetTime100Nanos
    \/ ActSetCounter
    \/ ActSetMinCounter
    \/ ActSetMaxCounter
    \/ ActMarshalSortableBinary
    \/ ActCompareSortable

SpecOrder == Init /\ [][NextOrder]_vars

\* the timestamp views of an identifier
NextTime ==
    \/ ActNewUUID
    \/ ActNewNamed
    \/ ActSetTime100Nanos
    \/ ActSetUnixTimeMillis
    \/ ActSetUnixTime100Nanos
    \/ ActSetTime
    \/ ActSetLeastSignificantBits
    \/ ActTime100Nanos
    \/ ActUnixTimeMillis
    \/ ActUnixTime100Nanos
    \/ ActTime

SpecTime == Init /\ [][NextTime]_vars

\* the text codec on arbitrary identifiers and on caller-supplied texts
NextText ==
    \/ ActSetMostSignificantBits
    \/ ActSetLeastSignificantBits
    \/ ActMarshalText
    \/ ActMarshalJSON
    \/ ActString
    \/ ActURN
    \/ ActShape
    \/ ActSupplyText
    \/ ActUnmarshalText
    \/ ActUnmarshalJSON
    \/ ActParse

SpecText == Init /\ [][NextText]_vars

\* the counter view on arbitrary identifiers
NextCounter ==
    \/ ActNewUUID
    \/ ActSetMostSignificantBits
    \/ ActSetLeastSignificantBits
    \/ ActSetCounter
    \/ ActCounter
    \/ ActVariant

SpecCounter == Init /\ [][NextCounter]_vars

\* the clock sequence and node fields of the low word
NextField ==
    \/ ActNewUUID
    \/ ActSetCounter
    \/ ActSetClockSequence
    \/ ActSetNode
    \/ ActClockSequence
    \/ ActNode
    \/ ActVariant

SpecField == Init /\ [][NextField]_vars

\* the field setters on the empty shell of any category
InitShell ==
    \E version \in Versions :
        /\ uuid = NewUUID(version)
        /\ data = << >>
        /\ dataOf = Holds("empty", ZeroUUID)
        /\ call = Call("NewUUID", W(0, 0, 0, version))
        /\ ret = NoArg
        /\ err = "nil"

NextVariant ==
    \/ ActSetTime100Nanos
    \/ ActSetUnixTimeMillis
    \/ ActSetUnixTime100Nanos
    \/ ActSetClockSequence
    \/ ActSetNode
    \/ ActSetCounter
    \/ ActSetMinCounter
    \/ ActSetMaxCounter
    \/ ActVariant

SpecVariant == InitShell /\ [][NextVariant]_vars

\* the loop of ParseBytes, iteration by iteration; an iteration that can be
\* taken is taken in the end, the loop having nothing to wait for
NextParse ==
    \/ ActParseBegin
    \/ ActParseStep

SpecParse == Init /\ [][NextParse]_vars

FairParse == SpecParse /\ WF_vars(ActParseStep)

\* the constructors and the random generator
NextGen ==
    \/ ActNewUUID
    \/ ActRandomUUID
    \/ ActNameUUIDFromBytes
    \/ ActVersion
    \/ ActVariant
    \/ ActTime100Nanos
    \/ ActClockSequence
    \/ ActNode
    \/ ActMarshalBinary
    \/ ActUnmarshalBinary

SpecGen == Init /\ [][NextGen]_vars

----------------------------------------------------------------------------
(* Properties.                                                             *)

SameWords(x, y) ==
    x.mostSigBits = y.mostSigBits /\ x.leastSigBits = y.leastSigBits

\* C1: unmarshalling the sortable form of any identifier x returns no error
\* and yields the high and the low word of x.
C1_SortableRoundTrip ==
    (call.op = "UnmarshalSortableBinary" /\ dataOf.fmt = "sortable")
        => (err = "nil" /\ SameWords(uuid, dataOf.uuid))

\* an identifier with all sixteen digits in each word came back from its sortable form
C1_Witness ==
    /\ call.op = "UnmarshalSortableBinary"
    /\ dataOf.fmt = "sortable"
    /\ err = "nil"
    /\ uuid = UUID(W(\h0123, \h4567, \h89ab, \hcdef), W(\hfedc, \hba98, \h7654, \h3210))
    /\ data = MarshalSortableBinary(uuid)

\* t is a timestamp in [0, 2^60), c a counter in [0, 0x3FFFFFFFFFFFFFFF]
InTimeRange(t) == t[1] = 0

InCounterRange(c) == And(c, CounterMask) = c

\* NewUUID(TimebasedUUID), then SetTime100Nanos(t), then SetCounter(c)
Build(t, c) == SetCounter(SetTime100Nanos(NewUUID(TimebasedUUID), t), c).uuid

OrderTimes == {t \in TimeSamples \cup {Zero64} : InTimeRange(t)}

OrderCounters == {c \in CounterSamples : InCounterRange(c)}

Built == [t \in OrderTimes, c \in OrderCounters |-> Build(t, c)]

LexLess(t1, c1, t2, c2) == ULess(t1, t2) \/ (t1 = t2 /\ ULess(c1, c2))

\* C2: of two identifiers built from (t1, c1) and (t2, c2) with the time-based
\* category and the counter view, the one with the lexicographically smaller
\* pair has the strictly smaller sortable form.
C2_OrderPreserving ==
    call.op = "CompareSortable" =>
        \A t1 \in OrderTimes, t2 \in OrderTimes, c1 \in OrderCounters, c2 \in OrderCounters :
            (dataOf.uuid = Built[t1, c1] /\ uuid = Built[t2, c2] /\ LexLess(t1, c1, t2, c2))
                => ret = -1

\* a later time with a smaller counter, the times in different fields of the layout
C2_Witness ==
    /\ call.op = "CompareSortable"
    /\ dataOf.uuid = Built[W(0, 1, 0, 0), W(0, 0, 0, \h80)]
    /\ uuid = Built[W(1, 0, 0, 0), W(0, 0, 0, \h7f)]
    /\ ret = -1

\* the buffer holds x after SetMinCounter and the identifier is the same x after SetCounter(n)
MinAgainstCounter(n) ==
    /\ call.op = "CompareSortable"
    /\ dataOf.uuid = SetMinCounter(uuid)
    /\ uuid = SetCounter(uuid, n).uuid

C4_MaxAboveEveryCounter ==
    \A n \in CounterSamples :
        (/\ call.op = "CompareSortable"
         /\ uuid = SetMaxCounter(uuid)
         /\ dataOf.uuid = SetCounter(uuid, n).uuid)
            => ret = -1

\* the largest counter, marshalled, against the same identifier after SetMaxCounter
C4_Witness ==
    /\ call.op = "CompareSortable"
    /\ uuid = SetMaxCounter(uuid)
    /\ dataOf.uuid = SetCounter(uuid, CounterMask).uuid
    /\ ret = -1

\* m * 10000 + 0x01b21dd213814000 does not overflow int64
NoOverflow(m) ==
    /\ ~ SLess(m, W(\hfffc, \hb923, \ha29c, \h779b))
    /\ ~ SLess(W(\h0003, \h3bbf, \h56c8, \h3465), m)

\* the timestamp of m lies in [0, 2^60)
FitsTimestamp(m) ==
    /\ NoOverflow(m)
    /\ InTimeRange(Add(Mul(m, One100NanosInMillis), Num100NanosSinceUUIDEpoch))

\* the identifier is as SetUnixTimeMillis(m) leaves it, and UnixTimeMillis was called
MillisRead(m) == call.op = "UnixTimeMillis" /\ uuid = SetUnixTimeMillis(uuid, m)

\* C5 as stated: UnixTimeMillis after SetUnixTimeMillis(m) returns m for
\* every m whose timestamp does not overflow int64.
C5_MillisRoundTripNoOverflow ==
    \A m \in MillisSamples : (MillisRead(m) /\ NoOverflow(m)) => ret = m

\* C5 amended: UnixTimeMillis after SetUnixTimeMillis(m) returns m for every m
\* whose timestamp m * 10000 + 0x01b21dd213814000 lies in [0, 2^60), that is
\* for -12219292800000 <= m <= 103072857660684.
C5_MillisRoundTrip ==
    \A m \in MillisSamples : (MillisRead(m) /\ FitsTimestamp(m)) => ret = m

\* the earliest millisecond, a negative one, read back
C5_Witness == MillisRead(MinMillis) /\ FitsTimestamp(MinMillis) /\ ret = MinMillis

\* C6 as stated: an unmarshal that returns an error leaves both words of its
\* target as they were before the call.
C6_FailedUnmarshalKeepsTarget ==
    [][(/\ call'.op \in {"UnmarshalBinary", "UnmarshalSortableBinary",
                         "UnmarshalText", "UnmarshalJSON"}
        /\ err' # "nil")
          => SameWords(uuid', uuid)]_vars

\* C7 as stated: UnmarshalBinary returns the length error for every input
\* whose length is not 16, shorter or longer, and decodes a 16-byte input
\* big-endian into the high and the low word.
C7_ExactlySixteenBytes ==
    call.op = "UnmarshalBinary" =>
        IF Len(data) = 16
        THEN /\ err = "nil"
             /\ PutUint64(uuid.mostSigBits) = SubSeq(data, 1, 8)
             /\ PutUint64(uuid.leastSigBits) = SubSeq(data, 9, 16)
        ELSE err = "ErrorWrongLen"

\* C7 amended: UnmarshalBinary succeeds exactly when the input has at least
\* 16 bytes: a shorter input returns the length error and leaves the target
\* as it was; an input of 16 bytes or more sets the high word to the
\* big-endian value of bytes 0..7 and the low word to that of bytes 8..15,
\* without any field validation, and ignores the bytes after the sixteenth.
C7_AtLeastSixteenBytes ==
    [][call'.op = "UnmarshalBinary" =>
          IF Len(data) >= 16
          THEN /\ err' = "nil"
               /\ PutUint64(uuid'.mostSigBits) = SubSeq(data, 1, 8)
               /\ PutUint64(uuid'.leastSigBits) = SubSeq(data, 9, 16)
          ELSE err' = "ErrorWrongLen" /\ SameWords(uuid', uuid)]_vars

\* a buffer of 17 bytes decoded: its first sixteen bytes are the two words
C7_Witness ==
    /\ call.op = "UnmarshalBinary"
    /\ Len(data) = 17
    /\ err = "nil"
    /\ PutUint64(uuid.mostSigBits) \o PutUint64(uuid.leastSigBits) = SubSeq(data, 1, 16)

IsHexDigit(c) == c \in (48..57) \cup (97..102) \cup (65..70)

\* the 36-character body of an input of length 36, 38 or 45
BodyOf(text) ==
    IF Len(text) = 45 THEN SubSeq(text, 10, 45)
    ELSE IF Len(text) = 38 THEN SubSeq(text, 2, 37)
    ELSE text

\* the input is not a well-formed instance of a documented shape
Malformed(text) ==
    \/ Len(text) \notin {32, 36, 38, 45}
    \/ Len(text) = 45 /\ ToLower(SubSeq(text, 1, 9)) # UrnPrefix
    \/ Len(text) \in {36, 38, 45} /\ \E q \in {9, 14, 19, 24} : BodyOf(text)[q] # Hyphen
    \/ Len(text) \in {36, 38, 45}
        /\ \E q \in (1..36) \ {9, 14, 19, 24} : ~ IsHexDigit(BodyOf(text)[q])
    \/ Len(text) = 32 /\ \E q \in 1..32 : ~ IsHexDigit(text[q])

\* C8 as stated: Parse returns an error for every input that is not a
\* well-formed instance of a documented shape: a wrong length, a missing
\* hyphen, a wrong prefix, or a payload character that is no hexadecimal digit.
C8_MalformedInputFails ==
    (call.op \in {"Parse", "UnmarshalText"} /\ Malformed(data)) => err # "nil"

\* C9 as stated: when the read of the random source fails, RandomUUID returns
\* an error.
C9_RandomFailurePropagates ==
    (call.op = "RandomUUID" /\ call.arg.err # "nil") => err # "nil"

\* C10: the four text encodings of any identifier x decode without error to
\* an identifier Equal to x: Parse of String and of URN, UnmarshalText of
\* MarshalText, UnmarshalJSON of MarshalJSON.
C10_TextRoundTrip ==
    /\ (call.op = "Parse" /\ dataOf.fmt \in {"string", "urn"})
          => (err = "nil" /\ Equal(ret, dataOf.uuid))
    /\ (call.op = "UnmarshalText" /\ dataOf.fmt = "text")
          => (err = "nil" /\ Equal(uuid, dataOf.uuid))
    /\ (call.op = "UnmarshalJSON" /\ dataOf.fmt = "json")
          => (err = "nil" /\ Equal(uuid, dataOf.uuid))

\* the JSON text of the identifier with all sixteen digits, decoded again
C10_Witness ==
    /\ call.op = "UnmarshalJSON"
    /\ dataOf = Holds("json", SampleUUID)
    /\ data = <<Quote>> \o String(SampleUUID) \o <<Quote>>
    /\ err = "nil"
    /\ uuid = SampleUUID

\* C11: for every identifier x with canonical text c, Parse of c, of c in
\* braces, of c in double quotes, of "urn:uuid:" + c with the prefix in any
\* letter case, and of the 32 digits of c without hyphens returns no error
\* and an identifier Equal to x, so the results are pairwise Equal.
C11_AllShapesParseAlike ==
    (call.op = "Parse" /\ dataOf.fmt \in Shapes \cup {"string"})
        => (err = "nil" /\ Equal(ret, dataOf.uuid))

\* the text of the identifier with all sixteen digits, in braces, parsed
C11_Witness ==
    /\ call.op = "Parse"
    /\ dataOf = Holds("braces", SampleUUID)
    /\ Len(data) = 38
    /\ err = "nil"
    /\ Equal(ret, SampleUUID)

\* C12: for every 16-byte buffer b, UnmarshalBinary(b) returns no error and
\* MarshalBinary of the identifier it leaves returns b byte for byte; and
\* for every identifier x, UnmarshalBinary of MarshalBinary(x) returns no
\* error and leaves the high and the low word of x.
C12_BinaryRoundTrip ==
    [][/\ (call.op = "UnmarshalBinary" /\ Len(data) = 16)
            => /\ err = "nil"
               /\ call'.op = "MarshalBinary" => (err' = "nil" /\ data' = data)
       /\ (call'.op = "UnmarshalBinary" /\ dataOf.fmt = "binary")
            => (err' = "nil" /\ SameWords(uuid', dataOf.uuid))]_vars

\* the caller's sixteen bytes, decoded and marshalled again
C12_Witness ==
    /\ call.op = "MarshalBinary"
    /\ err = "nil"
    /\ data = Pattern(16, 1)
    /\ dataOf.uuid = uuid
    /\ uuid = UnmarshalBinary(ZeroUUID, Pattern(16, 1)).uuid

\* the identifier is the empty shell of category cat: the code of cat in bits
\* 12..15 of the high word, the prefix 10 on top of the low word, all other
\* bits zero
IsShell(cat) ==
    /\ uuid.mostSigBits = <<0, 0, 0, 0, 0, 0, 0, 0, 0, 0, 0, 0, cat, 0, 0, 0>>
    /\ uuid.leastSigBits = <<8, 0, 0, 0, 0, 0, 0, 0, 0, 0, 0, 0, 0, 0, 0, 0>>

\* C13: for every category cat in 0..6, NewUUID(cat) is the empty shell of
\* cat, and on that shell Version() returns cat, Variant() returns IETF, and
\* Time100Nanos(), ClockSequence() and Node() return 0.
C13_EmptyShell ==
    \A cat \in Versions :
        /\ call = Call("NewUUID", W(0, 0, 0, cat)) => IsShell(cat)
        /\ IsShell(cat) =>
              /\ call.op = "Version" => ret = W(0, 0, 0, cat)
              /\ call.op = "Variant" => ret = "IETF"
              /\ call.op \in {"Time100Nanos", "ClockSequence", "Node"} => ret = Zero64

\* the shell of the last category, UnknownVersion, asked for its version
C13_Witness ==
    /\ IsShell(UnknownVersion)
    /\ call.op = "Version"
    /\ ret = W(0, 0, 0, UnknownVersion)

\* C14: for every identifier x and every int64 c, SetCounter(c) returns c AND
\* 0x3FFFFFFFFFFFFFFF and leaves the high word of x as it was; Counter()
\* called next returns the value SetCounter returned, and Variant() called
\* next returns IETF.
C14_CounterMasked ==
    [][/\ call'.op = "SetCounter" =>
            /\ ret' = And(call'.arg, W(\h3FFF, \hFFFF, \hFFFF, \hFFFF))
            /\ uuid'.mostSigBits = uuid.mostSigBits
       /\ call.op = "SetCounter" =>
            /\ call'.op = "Counter" => ret' = ret
            /\ call'.op = "Variant" => ret' = "IETF"]_vars

\* SetCounter(-1) on an identifier with a full high word, read back
C14_Witness ==
    /\ call.op = "Counter"
    /\ ret = W(\h3FFF, \hFFFF, \hFFFF, \hFFFF)
    /\ uuid = SetCounter(uuid, AllOnes).uuid
    /\ uuid.mostSigBits = W(\hfedc, \hba98, \h7654, \h3210)

\* the count of 100-ns units from the Unix epoch to the time t, t truncated
\* to 100-ns resolution: s * 10^7 + floor(ns / 100)
TicksOf(t) == Add(Mul(t.sec, 10000000), FromInt(t.nsec \div 100))

\* the count of 100-ns units from 1582-10-15 to t lies in [0, 2^60): the
\* seconds lie between -12219292800 (1582-10-15) and 0x1800000000, so that
\* s * 10^7 does not overflow int64, and the count has no bit above bit 59
TicksFit(t) ==
    /\ ~ SLess(t.sec, W(\hffff, \hfffd, \h27ac, \h6380))
    /\ ~ SLess(W(0, \h0018, \h0000, \h0000), t.sec)
    /\ InTimeRange(Add(TicksOf(t), W(\h01b2, \h1dd2, \h1381, \h4000)))

\* C15: for every time t of s seconds since the Unix epoch (s negative before
\* 1970) and ns nanoseconds in [0, 10^9), whose count of 100-ns units since
\* 1582-10-15 lies in [0, 2^60): Time() after SetTime(t) returns a time, with
\* its nanoseconds in [0, 10^9), whose count of 100-ns units since the Unix
\* epoch is s * 10^7 + floor(ns / 100).
C15_TimeRoundTrip ==
    [][(call.op = "SetTime" /\ call'.op = "Time" /\ TicksFit(call.arg))
          => /\ ret'.nsec \in 0..999999999
             /\ TicksOf(ret') = TicksOf(call.arg)]_vars

\* the last nanosecond before the Unix epoch: it is stored as -1 unit and
\* read back as second -1 with 999999900 nanoseconds
C15_Witness ==
    /\ call.op = "Time"
    /\ uuid = SetTime(uuid, TimeOf(AllOnes, 999999999))
    /\ ret = TimeOf(AllOnes, 999999900)

\* C16: UnmarshalJSON applied to the four bytes n, u, l, l returns a nil
\* error and leaves both words of its target as they were before the call.
C16_NullIsNoOp ==
    [][(call'.op = "UnmarshalJSON" /\ data = <<110, 117, 108, 108>>)
          => (err' = "nil" /\ SameWords(uuid', uuid))]_vars

\* null decoded into the identifier with all sixteen digits, which is kept
C16_Witness ==
    /\ call.op = "UnmarshalJSON"
    /\ data = <<110, 117, 108, 108>>
    /\ err = "nil"
    /\ uuid = SampleUUID

\* the 16 bytes of the identifier, high word first
BytesOf(u) == PutUint64(u.mostSigBits) \o PutUint64(u.leastSigBits)

\* outside the version digit and the two variant bits, the bytes of u are
\* the first 16 bytes of src
Rest122(u, src) ==
    /\ \A i \in (1..16) \ {7, 9} : BytesOf(u)[i] = src[i]
    /\ BytesOf(u)[7] % 16 = src[7] % 16
    /\ BytesOf(u)[9] % 64 = src[9] % 64

\* C17: whatever the 16 bytes left by the random source, RandomUUID returns
\* an identifier with Version() RandomlyGeneratedUUID and Variant() IETF;
\* whatever the digest, NameUUIDFromBytes with MD5NamebasedUUID or
\* SHA1NamebasedUUID returns no error and an identifier with that Version()
\* and Variant() IETF; in both, the other 122 bits are those of the first 16
\* source bytes.
C17_GeneratorsForceVersion ==
    /\ call.op = "RandomUUID" =>
          /\ Version(uuid) = RandomlyGeneratedUUID
          /\ Variant(uuid) = "IETF"
          /\ Rest122(uuid, call.arg.bytes)
    /\ (call.op = "NameUUIDFromBytes"
            /\ call.arg.version \in {MD5NamebasedUUID, SHA1NamebasedUUID}) =>
          /\ err = "nil"
          /\ Version(uuid) = call.arg.version
          /\ Variant(uuid) = "IETF"
          /\ Rest122(uuid, IF call.arg.version = MD5NamebasedUUID
                            THEN Md5Sum(call.arg.name) ELSE Sha1Sum(call.arg.name))

\* the SHA-1 name "alex", whose 20-byte digest has 0x81 and 0x7f at the two
\* forced bytes
C17_Witness ==
    /\ call = Call("NameUUIDFromBytes", [name |-> "alex", version |-> SHA1NamebasedUUID])
    /\ err = "nil"
    /\ uuid = UUID(W(\h60c6, \hd277, \ha8bd, \h51de), W(\hbfdd, \he192, \h01bf, \h9c58))

TimeSetters == {"SetTime100Nanos", "SetUnixTimeMillis", "SetUnixTime100Nanos", "SetTime"}

\* C18 as stated: Version() after SetTime100Nanos, SetUnixTimeMillis,
\* SetUnixTime100Nanos or SetTime equals Version() before the call, for an
\* identifier of any version.
C18_TimeSettersKeepVersion ==
    [][call'.op \in TimeSetters => Version(uuid') = Version(uuid)]_vars

\* C18 amended: Version() after SetTime100Nanos, SetUnixTimeMillis,
\* SetUnixTime100Nanos or SetTime is TimebasedUUID, for an identifier of any
\* version and every argument; it equals Version() before the call exactly
\* when the identifier was time-based.
C18_TimeSettersForceTimebased ==
    [][call'.op \in TimeSetters =>
          /\ Version(uuid') = TimebasedUUID
          /\ (Version(uuid') = Version(uuid)) <=> (Version(uuid) = TimebasedUUID)]_vars

\* the SHA-1 identifier of the name "content" after SetUnixTimeMillis(0):
\* the low word is the digest's, the version digit is 1
C18_Witness ==
    /\ call = Call("SetUnixTimeMillis", Zero64)
    /\ uuid = UUID(W(\h1381, \h4000, \h1dd2, \h11b2), W(\h8d45, \h0774, \hf5ba, \h30c5))
    /\ Version(uuid) = TimebasedUUID

\* C19: for every identifier x and every t, SetTime100Nanos(t) leaves
\* Version() TimebasedUUID and the low word of x bit for bit, and
\* Time100Nanos() called next returns the low 60 bits of t, which is t
\* itself for t in [0, 2^60).
C19_SetTimeStoresSixtyBits ==
    [][/\ call'.op = "SetTime100Nanos" =>
            /\ Version(uuid') = TimebasedUUID
            /\ uuid'.leastSigBits = uuid.leastSigBits
       /\ (call.op = "SetTime100Nanos" /\ call'.op = "Time100Nanos") =>
            /\ ret' = [call.arg EXCEPT ![1] = 0]
            /\ InTimeRange(call.arg) => ret' = call.arg]_vars

\* a timestamp in the time_high field, set over a full low word and read back
C19_Witness ==
    /\ call.op = "Time100Nanos"
    /\ ret = W(1, 0, 0, 0)
    /\ uuid = UUID(W(0, 0, 0, \h1001), W(\hfedc, \hba98, \h7654, \h3210))

\* floor(x / k) on int64, for a small divisor k
FloorDiv(x, k) ==
    IF IsNegative(x) THEN Neg(UDiv(Add(Neg(x), FromInt(k - 1)), k)) ELSE UDiv(x, k)

\* C20 as stated: for every identifier whose timestamp T is smaller than the
\* epoch offset 0x01b21dd213814000, UnixTimeMillis() returns
\* floor((T - offset) / 10000), rounding toward negative infinity.
C20_MillisFloor ==
    (call.op = "UnixTimeMillis"
        /\ ULess(Time100Nanos(uuid), W(\h01b2, \h1dd2, \h1381, \h4000)))
      => ret = FloorDiv(Sub(Time100Nanos(uuid), W(\h01b2, \h1dd2, \h1381, \h4000)), 10000)

\* C21: on every identifier x with Variant() IETF, SetClockSequence(c)
\* reports no error and leaves ClockSequence() = c AND 0x3FFF with Node(),
\* Variant() and the high word of x as they were, and SetNode(n) reports no
\* error and leaves Node() = n AND 0xFFFFFFFFFFFF with ClockSequence(),
\* Variant() and the high word as they were; the getter called next returns
\* the masked argument.
C21_FieldSettersMask ==
    [][/\ (call'.op = "SetClockSequence" /\ Variant(uuid) = "IETF") =>
            /\ err' = "nil"
            /\ ClockSequence(uuid') = And(call'.arg, W(0, 0, 0, \h3FFF))
            /\ Node(uuid') = Node(uuid)
            /\ Variant(uuid') = "IETF"
            /\ uuid'.mostSigBits = uuid.mostSigBits
       /\ (call'.op = "SetNode" /\ Variant(uuid) = "IETF") =>
            /\ err' = "nil"
            /\ Node(uuid') = And(call'.arg, W(0, \hFFFF, \hFFFF, \hFFFF))
            /\ ClockSequence(uuid') = ClockSequence(uuid)
            /\ Variant(uuid') = "IETF"
            /\ uuid'.mostSigBits = uuid.mostSigBits
       /\ (call.op = "SetClockSequence" /\ call'.op = "ClockSequence") =>
            ret' = And(call.arg, W(0, 0, 0, \h3FFF))
       /\ (call.op = "SetNode" /\ call'.op = "Node") =>
            ret' = And(call.arg, W(0, \hFFFF, \hFFFF, \hFFFF))]_vars

\* SetClockSequence(-1) on the random-category shell with a full node: the
\* fourteen bits are set under the prefix 10, the node and the high word stay
C21_Witness ==
    /\ call = Call("SetClockSequence", AllOnes)
    /\ uuid = UUID(W(0, 0, 0, \h4000), W(\hBFFF, \hFFFF, \hFFFF, \hFFFF))

\* C22 as stated: starting from NewUUID(cat) for any category, after any
\* finite sequence of SetTime100Nanos, SetUnixTimeMillis, SetUnixTime100Nanos,
\* SetClockSequence, SetNode, SetCounter, SetMinCounter and SetMaxCounter,
\* the variant of the identifier is IETF and Variant() returns IETF.
C22_VariantStaysIETF ==
    /\ Variant(uuid) = "IETF"
    /\ call.op = "Variant" => ret = "IETF"

\* ParseBytes is in its loop; ParseBytes has returned
InLoop == call.op = "ParseBytes" /\ call.arg.pc = "loop"

Returned == call.op = "ParseBytes" /\ call.arg.pc = "done"

\* C23: every iteration of the loop of ParseBytes returns or replaces the
\* input by a strictly shorter one (45 -> 36, 38 -> 36, 36 -> 32) and goes
\* round again; no call runs more than three iterations; every call returns.
C23_ParseTerminates ==
    /\ [](call.op = "ParseBytes" => call.arg.iter <= 3)
    /\ [][InLoop =>
            \/ Returned' /\ data' = data
            \/ InLoop' /\ <<Len(data), Len(data')>> \in {<<45, 36>>, <<38, 36>>, <<36, 32>>}]_vars
    /\ InLoop ~> Returned

\* a URN text returned after the three iterations 45 -> 36 -> 32 -> result
C23_Witness ==
    /\ call = Call("ParseBytes", [pc |-> "done", iter |-> 3])
    /\ Len(data) = 32
    /\ err = "nil"
    /\ ret = SampleUUID

====
